---- MODULE Spec2Model ----
(***************************************************************************)
(* A model of egui_minipng's PngLoader (src/src/lib.rs): the URI-keyed    *)
(* decode cache behind egui's ImageLoader trait.                           *)
(*                                                                         *)
(* Strings that the code inspects character by character (the URI) are    *)
(* tuples of one-character strings; Option<T> is a tuple of length 0 or 1. *)
(* The byte-provider (egui::Context::try_load_bytes) and the decoder       *)
(* (crate minipng) are external: the provider's answer is an input of the  *)
(* call, and a blob of bytes carries what the decoder makes of it.         *)
(***************************************************************************)
EXTENDS Integers, Sequences, FiniteSets, TLC

VARIABLES cache, lock, pc, call, ret, hist, run, decoded, inputs

vars == <<cache, lock, pc, call, ret, hist, run, decoded, inputs>>

None == <<>>
Some(x) == <<x>>

(***************************************************************************)
(* Identifiers                                                             *)
(***************************************************************************)
A_PNG == <<"a", ".", "p", "n", "g">>
B_PNG == <<"b", ".", "p", "n", "g">>
A_JPG == <<"a", ".", "j", "p", "g">>

Uris == {A_PNG, B_PNG, A_JPG}

PNG == <<"p", "n", "g">>

\* the character at i belongs to a path component that Path keeps: it is no
\* separator and no component that is just "."
in_component(uri, i) ==
    /\ uri[i] # "/"
    /\ ~ (/\ uri[i] = "."
          /\ (i = 1 \/ uri[i - 1] = "/")
          /\ (i = Len(uri) \/ uri[i + 1] = "/"))

\* the Option holding the element of a set of at most one element
Option(S) == IF S = {} THEN None ELSE Some(CHOOSE x \in S : TRUE)

\* c = <<first, last>> are the positions of the last path component that Path
\* keeps
is_last_component(uri, c) ==
    /\ c[1] <= c[2]
    /\ c[1] = 1 \/ uri[c[1] - 1] = "/"
    /\ \A k \in c[1]..c[2] : uri[k] # "/"
    /\ in_component(uri, c[2])
    /\ \A k \in (c[2] + 1)..Len(uri) : ~ in_component(uri, k)

\* std::path::Path::file_name on a Unix path: the last component, where empty
\* components and "." are normalised away; None when there is none or it is "..".
file_name(uri) ==
    Option({SubSeq(uri, c[1], c[2]) :
                c \in {x \in (1..Len(uri)) \X (1..Len(uri)) : is_last_component(uri, x)}}
               \ {<<".", ".">>})

\* the text after the last "." of file, from the "." at position first at the
\* earliest
after_last_dot(file, first) ==
    {SubSeq(file, d + 1, Len(file)) :
         d \in {x \in first..Len(file) :
                   file[x] = "." /\ \A j \in (x + 1)..Len(file) : file[j] # "."}}

\* an extension that also takes the text after a leading "."
extension_leading_dot(uri) ==
    Option(UNION {after_last_dot(file[1], 1) : file \in {file_name(uri)} \ {None}})

\* std::path::Path::extension: the text after the last "." of the file name;
\* None without a ".", or when the only "." is the first character.
extension(uri) ==
    Option(UNION {after_last_dot(file[1], 2) : file \in {file_name(uri)} \ {None}})

\* a filter that takes any identifier with an extension
is_supported_uri_any_ext(uri) == extension(uri) # None

\* is_supported_uri: the extension is "png"
is_supported_uri(uri) == extension(uri) = Some(PNG)

(***************************************************************************)
(* MIME types: is_unsupported_mime is !mime.contains("png")                *)
(***************************************************************************)
MIME_PNG == <<"i", "m", "a", "g", "e", "/", "p", "n", "g">>
MIME_HTML == <<"t", "e", "x", "t", "/", "h", "t", "m", "l">>

Mimes == {None, Some(MIME_PNG), Some(MIME_HTML)}

contains(s, pat) ==
    \E i \in 1..(Len(s) - Len(pat) + 1) : SubSeq(s, i, i + Len(pat) - 1) = pat

\* a MIME check that lets every type through
is_unsupported_mime_never(mime) == FALSE

is_unsupported_mime(mime) == ~ contains(mime, PNG)

(***************************************************************************)
(* The decoder (crate minipng), seen through the bytes it is given.  A     *)
(* blob says what decode_png_header, decode_png and convert_to_rgba8bpc    *)
(* make of it: the header's size or none, an error or "ok" for the full    *)
(* decode and for the normalisation, and the image the decoder ends with.  *)
(***************************************************************************)
BLOB_EMPTY ==
    [id |-> "empty", header |-> None, decode |-> "NotPng", convert |-> "ok",
     size |-> <<0, 0>>, rgba |-> <<>>]
BLOB_RED_GREEN ==
    [id |-> "red_green", header |-> Some(<<2, 1>>), decode |-> "ok", convert |-> "ok",
     size |-> <<2, 1>>, rgba |-> <<255, 0, 0, 255, 0, 255, 0, 255>>]
BLOB_CLEAR ==
    [id |-> "clear", header |-> Some(<<1, 1>>), decode |-> "ok", convert |-> "ok",
     size |-> <<1, 1>>, rgba |-> <<255, 0, 0, 0>>]
BLOB_CORRUPT ==
    [id |-> "corrupt", header |-> Some(<<2, 1>>), decode |-> "BadBody", convert |-> "ok",
     size |-> <<0, 0>>, rgba |-> <<>>]
BLOB_NOCONV ==
    [id |-> "noconv", header |-> Some(<<1, 1>>), decode |-> "ok", convert |-> "BadFormat",
     size |-> <<0, 0>>, rgba |-> <<>>]

Blobs == {BLOB_EMPTY, BLOB_RED_GREEN, BLOB_CLEAR, BLOB_CORRUPT, BLOB_NOCONV}

\* bytes with a 2x1 header for which the decoder would end, without an error,
\* with the bytes of one pixel only: an output the decoder's own invariant
\* excludes, and that load_image_bytes passes on unchecked
BLOB_SHORT ==
    [id |-> "short", header |-> Some(<<2, 1>>), decode |-> "ok", convert |-> "ok",
     size |-> <<2, 1>>, rgba |-> <<255, 0, 0, 255>>]

\* minipng::decode_png_header(&bytes) -> Result<ImageHeader, Error>
decode_png_header(bytes) ==
    IF bytes.header = None
    THEN [ok |-> FALSE, err |-> bytes.decode]
    ELSE [ok |-> TRUE, header |-> bytes.header[1]]

\* <minipng::Error as Display>::to_string: the error's text
to_string(e) ==
    CASE e = "BadBody" -> "bad image data"
      [] e = "BadFormat" -> "bad format"
      [] OTHER -> "not a png"

\* egui::Color32::from_rgba_unmultiplied for the alpha values the blobs use:
\* an opaque pixel is kept, a fully transparent one becomes Color32::TRANSPARENT.
Color32_from_rgba_unmultiplied(r, g, b, a) ==
    IF a = 255 THEN <<r, g, b, 255>>
    ELSE IF a = 0 THEN <<0, 0, 0, 0>>
    ELSE <<(r * a + 127) \div 255, (g * a + 127) \div 255, (b * a + 127) \div 255, a>>

\* egui::ColorImage::from_rgba_unmultiplied(size, rgba): one Color32 per four bytes
ColorImage_from_rgba_unmultiplied(size, rgba) ==
    [size |-> size,
     pixels |-> [i \in 1..(Len(rgba) \div 4) |->
                    Color32_from_rgba_unmultiplied(rgba[4 * i - 3], rgba[4 * i - 2],
                                                   rgba[4 * i - 1], rgba[4 * i])]]

\* the assert_eq! at the head of egui::ColorImage::from_rgba_unmultiplied:
\* size[0] * size[1] * 4 == rgba.len(), a panic otherwise
size_matches(size, rgba) == size[1] * size[2] * 4 = Len(rgba)

\* load_image_bytes: Ok(ColorImage) or the decoder's error; the call unwinds
\* with a panic when ColorImage::from_rgba_unmultiplied's assertion fails
load_image_bytes(header, bytes) ==
    IF bytes.decode # "ok"
    THEN [ok |-> FALSE, panic |-> FALSE, err |-> bytes.decode]
    ELSE IF bytes.convert # "ok"
    THEN [ok |-> FALSE, panic |-> FALSE, err |-> bytes.convert]
    ELSE IF ~ size_matches(bytes.size, bytes.rgba)
    THEN [ok |-> FALSE, panic |-> TRUE]
    ELSE [ok |-> TRUE, panic |-> FALSE,
          image |-> ColorImage_from_rgba_unmultiplied(bytes.size, bytes.rgba)]

(***************************************************************************)
(* The byte-provider's answers: Result<BytesPoll, LoadError>               *)
(***************************************************************************)
NotSupported == [tag |-> "NotSupported"]
Loading(msg) == [tag |-> "Loading", msg |-> msg]

ProviderErrors == {NotSupported, Loading("io error")}
SizeHints == {None, Some(<<64, 48>>)}

BytesReady(bytes, mime) == [tag |-> "Ready", bytes |-> bytes, mime |-> mime]
BytesPending(size) == [tag |-> "Pending", size |-> size]
BytesErr(err) == [tag |-> "Err", err |-> err]

Answers ==
    {BytesReady(b, m) : b \in Blobs, m \in Mimes}
        \cup {BytesPending(s) : s \in SizeHints}
        \cup {BytesErr(e) : e \in ProviderErrors}

NotAsked == [tag |-> "NotAsked"]

(***************************************************************************)
(* Results and cache entries                                               *)
(***************************************************************************)
\* ImageLoadResult = Result<ImagePoll, LoadError>
Ok(poll) == [res |-> "Ok", poll |-> poll]
Err(err) == [res |-> "Err", err |-> err]
ImageReady(image) == [tag |-> "Ready", image |-> image]
ImagePending(size) == [tag |-> "Pending", size |-> size]
Unit == [res |-> "Unit"]
Usize(n) == [res |-> "Usize", n |-> n]
NoResult == [res |-> "None"]
\* no value: the call ended by unwinding with a panic
Panicked == [res |-> "Panic"]

\* Arc<ColorImage>: the allocation's address and the immutable image in it
Arc(addr, image) == [addr |-> addr, image |-> image]

\* Entry = Result<Arc<ColorImage>, String>
EntryOk(arc) == [tag |-> "Ok", image |-> arc]
EntryErr(msg) == [tag |-> "Err", err |-> msg]

(***************************************************************************)
(* The cache: HashMap<String, Entry>, a function whose domain is the keys  *)
(***************************************************************************)
cache_get(c, uri) == IF uri \in DOMAIN c THEN Some(c[uri]) ELSE None

\* an insert that drops every other entry
cache_insert_alone(c, uri, entry) == [k \in {uri} |-> entry]

cache_insert(c, uri, entry) ==
    [k \in DOMAIN c \cup {uri} |-> IF k = uri THEN entry ELSE c[k]]

\* a remove that removes nothing
cache_remove_nothing(c, uri) == c

cache_remove(c, uri) == [k \in DOMAIN c \ {uri} |-> c[k]]

\* a clear that keeps the entries
cache_clear_nothing(c) == c

cache_clear(c) == [k \in {} |-> NoResult]

\* the closure of byte_size without size_of::<Color32>()
entry_bytes_pixels(entry) ==
    IF entry.tag = "Ok" THEN Len(entry.image.image.pixels) ELSE Len(entry.err)

\* the closure of byte_size: the bytes one entry accounts for
entry_bytes(entry) ==
    IF entry.tag = "Ok" THEN Len(entry.image.image.pixels) * 4 ELSE Len(entry.err)

RECURSIVE sum_entries(_, _)
sum_entries(c, keys) ==
    IF keys = {} THEN 0
    ELSE LET k == CHOOSE x \in keys : TRUE
         IN  entry_bytes(c[k]) + sum_entries(c, keys \ {k})

\* PngLoader::byte_size, inside the lock
byte_size(c) == sum_entries(c, DOMAIN c)

(***************************************************************************)
(* PngLoader::load after a cache miss: what try_load_bytes' answer leads   *)
(* to.  addr is the address Arc::new would allocate.  The result names the *)
(* value returned, the entry inserted if any, and which decoder calls were *)
(* made.                                                                   *)
(***************************************************************************)
Outcome(r, ins, hdr, dec) == [ret |-> r, insert |-> ins, hdr |-> hdr, dec |-> dec]

\* lines 69-74 without the insert
decode_and_store_no_insert(uri, header, bytes, addr) ==
    LET r == load_image_bytes(header, bytes)
    IN  IF r.ok
        THEN Outcome(Ok(ImageReady(Arc(addr, r.image))), None, TRUE, TRUE)
        ELSE Outcome(Err(Loading(to_string(r.err))), None, TRUE, TRUE)

\* lines 69-74 with only a decoded image inserted
decode_and_store_ok_only(uri, header, bytes, addr) ==
    LET r == load_image_bytes(header, bytes)
    IN  IF r.ok
        THEN Outcome(Ok(ImageReady(Arc(addr, r.image))),
                     Some(EntryOk(Arc(addr, r.image))), TRUE, TRUE)
        ELSE Outcome(Err(Loading(to_string(r.err))), None, TRUE, TRUE)

\* lines 69-74 with the image copied into a second allocation for the caller
decode_and_store_copy(uri, header, bytes, addr) ==
    LET r == load_image_bytes(header, bytes)
    IN  IF r.ok
        THEN Outcome(Ok(ImageReady(Arc(addr + 1, r.image))),
                     Some(EntryOk(Arc(addr, r.image))), TRUE, TRUE)
        ELSE Outcome(Err(Loading(to_string(r.err))),
                     Some(EntryErr(to_string(r.err))), TRUE, TRUE)

\* load, lines 69-74: the full decode; its result, image or error text, is
\* inserted and returned
decode_and_store(uri, header, bytes, addr) ==
    LET r == load_image_bytes(header, bytes)
        result == IF r.ok THEN EntryOk(Arc(addr, r.image))
                  ELSE EntryErr(to_string(r.err))
    IN  IF r.panic
        THEN Outcome(Panicked, None, TRUE, TRUE)
        ELSE IF result.tag = "Ok"
        THEN Outcome(Ok(ImageReady(result.image)), Some(result), TRUE, TRUE)
        ELSE Outcome(Err(Loading(result.err)), Some(result), TRUE, TRUE)

\* lines 60-75 with a header that does not parse remembered as a failure
load_ready_header_cached(uri, bytes, mime, addr) ==
    IF mime # None /\ is_unsupported_mime(mime[1])
    THEN Outcome(Err(NotSupported), None, FALSE, FALSE)
    ELSE LET h == decode_png_header(bytes)
         IN  IF ~ h.ok
             THEN Outcome(Err(Loading("not a png")), Some(EntryErr("not a png")), TRUE, FALSE)
             ELSE decode_and_store(uri, h.header, bytes, addr)

\* load, lines 60-75: the provider gave bytes
load_ready(uri, bytes, mime, addr) ==
    IF mime # None /\ is_unsupported_mime(mime[1])
    THEN Outcome(Err(NotSupported), None, FALSE, FALSE)
    ELSE LET h == decode_png_header(bytes)
         IN  IF ~ h.ok
             THEN Outcome(Err(NotSupported), None, TRUE, FALSE)
             ELSE decode_and_store(uri, h.header, bytes, addr)

\* lines 59-78 with a Pending answer remembered as a failure
load_miss_pending_cached(uri, ans, addr) ==
    IF ans.tag = "Ready" THEN load_ready(uri, ans.bytes, ans.mime, addr)
    ELSE IF ans.tag = "Pending"
    THEN Outcome(Ok(ImagePending(ans.size)), Some(EntryErr("pending")), FALSE, FALSE)
    ELSE Outcome(Err(ans.err), None, FALSE, FALSE)

\* lines 59-78 with the provider's failure remembered
load_miss_failure_cached(uri, ans, addr) ==
    IF ans.tag = "Ready" THEN load_ready(uri, ans.bytes, ans.mime, addr)
    ELSE IF ans.tag = "Pending"
    THEN Outcome(Ok(ImagePending(ans.size)), None, FALSE, FALSE)
    ELSE Outcome(Err(ans.err), Some(EntryErr("provider failed")), FALSE, FALSE)

\* load, lines 59-78: the match on ctx.try_load_bytes(uri)
load_miss(uri, ans, addr) ==
    IF ans.tag = "Ready" THEN load_ready(uri, ans.bytes, ans.mime, addr)
    ELSE IF ans.tag = "Pending"
    THEN Outcome(Ok(ImagePending(ans.size)), None, FALSE, FALSE)
    ELSE Outcome(Err(ans.err), None, FALSE, FALSE)

\* a cache hit that reports a remembered failure as NotSupported
load_hit_unsupported(entry) ==
    IF entry.tag = "Ok" THEN Ok(ImageReady(entry.image)) ELSE Err(NotSupported)

\* PngLoader::load on a cache hit: the stored entry as a result
load_hit(entry) ==
    IF entry.tag = "Ok" THEN Ok(ImageReady(entry.image)) ELSE Err(Loading(entry.err))

(***************************************************************************)
(* State                                                                   *)
(*   cache  the HashMap behind the Mutex                                   *)
(*   lock   the Mutex: the thread holding it, or Free                      *)
(*   pc     each caller's position: idle, or inside a call                 *)
(*   call   each caller's current (or last) call: operation, argument and  *)
(*          what it has done so far                                        *)
(*   ret    the value each caller's last call returned                     *)
(*   hist   the last two completed calls, oldest first                     *)
(*   run    the Pending results in a row for one identifier, up to the     *)
(*          last completed call: the identifier, how many (counted up to   *)
(*          MaxPendings) and whether the last call was still one of them   *)
(*   decoded the identifiers for which a decode attempt has completed      *)
(*   inputs the identifiers the callers pass, the answers the provider     *)
(*          gives and the history variables (hist and run, decoded) that   *)
(*          are recorded in this run; never changes                        *)
(***************************************************************************)
Free == "free"
T1 == "t1"
T2 == "t2"

NoUri == <<>>

\* how many Pending results in a row the model counts
MaxPendings == 2

\* a call's record: who calls what, the provider's answer if it was asked, how
\* often the provider was asked (polls), whether the header parse (hdr) and the
\* full decode (dec) ran, whether the lock was taken (locked), whether the entry
\* was there (hit), and whether the lock was asked for while another caller was
\* loading the same uncached identifier (raced)
NewCall(who, op, uri) ==
    [who |-> who, op |-> op, uri |-> uri, ans |-> NotAsked, polls |-> 0,
     hdr |-> FALSE, dec |-> FALSE, locked |-> FALSE, hit |-> FALSE,
     raced |-> FALSE]

NoCall == NewCall("nobody", "none", NoUri)

NoRun == [uri |-> NoUri, n |-> 0, open |-> FALSE]

IsPending(r) == r.res = "Ok" /\ r.poll.tag = "Pending"

Done(c, r) == [call |-> c, ret |-> r]

InitOf(threads, uris, answers, record) ==
    /\ inputs = [uris |-> uris, answers |-> answers, record |-> record]
    /\ cache = [k \in {} |-> NoResult]
    /\ lock = Free
    /\ pc = [t \in threads |-> "idle"]
    /\ call = [t \in threads |-> NoCall]
    /\ ret = [t \in threads |-> NoResult]
    /\ hist = <<Done(NoCall, NoResult), Done(NoCall, NoResult)>>
    /\ run = NoRun
    /\ decoded = {}

Init == InitOf({T1}, Uris, Answers, {"hist"})

\* the inputs of the two-caller runs: fewer, to keep the interleavings checkable
ConcUris == {A_PNG, A_JPG}
ConcAnswers ==
    {BytesReady(BLOB_RED_GREEN, None), BytesReady(BLOB_CORRUPT, None), BytesPending(None)}

InitConc == InitOf({T1, T2}, ConcUris, ConcAnswers, {"hist"})

Threads == DOMAIN pc

\* the addresses of the Arc<ColorImage> allocations still referenced
HeldBy(r) == IF r.res = "Ok" /\ r.poll.tag = "Ready" THEN {r.poll.image.addr} ELSE {}

Live ==
    {cache[k].image.addr : k \in {x \in DOMAIN cache : cache[x].tag = "Ok"}}
        \cup UNION {HeldBy(ret[t]) : t \in Threads}
        \cup HeldBy(hist[1].ret) \cup HeldBy(hist[2].ret)

\* Arc::new: an address that no live allocation has
NewAddr == CHOOSE a \in 1..(Cardinality(Live) + 1) :
               a \notin Live /\ \A b \in 1..(a - 1) : b \in Live

\* a call returns r: the caller is idle again and the call is recorded; a call
\* that panics unwinds into the caller, which is not modelled any further
Return(t, c, r) ==
    LET before == IF run.uri = c.uri /\ run.open THEN run.n ELSE 0
    IN  /\ pc' = [pc EXCEPT ![t] = IF r = Panicked THEN "panicked" ELSE "idle"]
        /\ call' = [call EXCEPT ![t] = c]
        /\ ret' = [ret EXCEPT ![t] = r]
        /\ hist' = IF "hist" \in inputs.record THEN <<hist[2], Done(c, r)>> ELSE hist
        /\ run' = IF "hist" \notin inputs.record THEN run
                  ELSE IF c.op = "load" /\ IsPending(r)
                  THEN [uri |-> c.uri, open |-> TRUE,
                        n |-> IF before < MaxPendings THEN before + 1 ELSE MaxPendings]
                  ELSE IF c.op = "load" /\ before > 0
                  THEN [uri |-> c.uri, open |-> FALSE, n |-> before]
                  ELSE NoRun
        /\ decoded' = IF "decoded" \in inputs.record /\ c.op = "load" /\ c.dec
                      THEN decoded \cup {c.uri} ELSE decoded
        /\ UNCHANGED inputs

(***************************************************************************)
(* Operations                                                              *)
(***************************************************************************)
\* a caller enters load(ctx, uri, _)
CallLoad(t, uri) ==
    /\ pc[t] = "idle"
    /\ pc' = [pc EXCEPT ![t] = "load"]
    /\ call' = [call EXCEPT ![t] = NewCall(t, "load", uri)]
    /\ UNCHANGED <<cache, lock, ret, hist, run, decoded, inputs>>

\* load, lines 48-50: the identifier filter, before the lock is asked for
LoadFilter(t) ==
    /\ pc[t] = "load"
    /\ IF ~ is_supported_uri(call[t].uri)
       THEN /\ Return(t, call[t], Err(NotSupported))
            /\ UNCHANGED <<cache, lock>>
       ELSE /\ pc' = [pc EXCEPT ![t] = "lock"]
            /\ call' = [call EXCEPT ![t].raced =
                            /\ lock # Free
                            /\ call[lock].op = "load"
                            /\ call[lock].uri = call[t].uri
                            /\ call[t].uri \notin DOMAIN cache]
            /\ UNCHANGED <<cache, lock, ret, hist, run, decoded, inputs>>

\* line 52 with a lock that does not exclude: the guard is handed out although
\* another caller holds it
LoadAcquire_shared(t) ==
    /\ pc[t] = "lock"
    /\ lock' = t
    /\ pc' = [pc EXCEPT ![t] = "lookup"]
    /\ call' = [call EXCEPT ![t].locked = TRUE]
    /\ UNCHANGED <<cache, ret, hist, run, decoded, inputs>>

\* load, line 52: self.cache.lock()
LoadAcquire(t) ==
    /\ pc[t] = "lock"
    /\ lock = Free
    /\ lock' = t
    /\ pc' = [pc EXCEPT ![t] = "lookup"]
    /\ call' = [call EXCEPT ![t].locked = TRUE]
    /\ UNCHANGED <<cache, ret, hist, run, decoded, inputs>>

\* lines 53-58 with the guard dropped after the lookup, hit or miss
LoadLookup_unlock(t) ==
    /\ pc[t] = "lookup"
    /\ LET entry == cache_get(cache, call[t].uri)
       IN  IF entry # None
           THEN /\ Return(t, [call[t] EXCEPT !.hit = TRUE], load_hit(entry[1]))
                /\ lock' = Free
                /\ UNCHANGED cache
           ELSE /\ pc' = [pc EXCEPT ![t] = "miss"]
                /\ lock' = Free
                /\ UNCHANGED <<cache, call, ret, hist, run, decoded, inputs>>

\* load, lines 53-58: cache.get(uri).cloned(); a hit returns, dropping the guard
LoadLookup(t) ==
    /\ pc[t] = "lookup"
    /\ LET entry == cache_get(cache, call[t].uri)
       IN  IF entry # None
           THEN /\ Return(t, [call[t] EXCEPT !.hit = TRUE], load_hit(entry[1]))
                /\ lock' = Free
                /\ UNCHANGED cache
           ELSE /\ pc' = [pc EXCEPT ![t] = "miss"]
                /\ UNCHANGED <<cache, lock, call, ret, hist, run, decoded, inputs>>

\* lines 59-78 with the guard kept when the provider's answer is Pending
LoadMiss_keeps_lock(t) ==
    /\ pc[t] = "miss"
    /\ \E ans \in inputs.answers :
          LET o == load_miss(call[t].uri, ans, NewAddr)
              c == [call[t] EXCEPT !.ans = ans, !.polls = @ + 1,
                                   !.hdr = o.hdr, !.dec = o.dec]
          IN  /\ cache' = IF o.insert = None THEN cache
                          ELSE cache_insert(cache, call[t].uri, o.insert[1])
              /\ Return(t, c, o.ret)
              /\ lock' = IF IsPending(o.ret) THEN lock ELSE Free

\* load, lines 59-78: ctx.try_load_bytes(uri) and what follows, the guard still
\* held; every exit drops the guard, unwinding included
LoadMiss(t) ==
    /\ pc[t] = "miss"
    /\ \E ans \in inputs.answers :
          LET o == load_miss(call[t].uri, ans, NewAddr)
              c == [call[t] EXCEPT !.ans = ans, !.polls = @ + 1,
                                   !.hdr = o.hdr, !.dec = o.dec]
          IN  /\ cache' = IF o.insert = None THEN cache
                          ELSE cache_insert(cache, call[t].uri, o.insert[1])
              /\ Return(t, c, o.ret)
              /\ lock' = Free

\* a caller enters forget(uri), forget_all() or byte_size()
CallForget(t, uri) ==
    /\ pc[t] = "idle"
    /\ pc' = [pc EXCEPT ![t] = "forget"]
    /\ call' = [call EXCEPT ![t] = NewCall(t, "forget", uri)]
    /\ UNCHANGED <<cache, lock, ret, hist, run, decoded, inputs>>

CallForgetAll(t) ==
    /\ pc[t] = "idle"
    /\ pc' = [pc EXCEPT ![t] = "forget_all"]
    /\ call' = [call EXCEPT ![t] = NewCall(t, "forget_all", NoUri)]
    /\ UNCHANGED <<cache, lock, ret, hist, run, decoded, inputs>>

CallByteSize(t) ==
    /\ pc[t] = "idle"
    /\ pc' = [pc EXCEPT ![t] = "byte_size"]
    /\ call' = [call EXCEPT ![t] = NewCall(t, "byte_size", NoUri)]
    /\ UNCHANGED <<cache, lock, ret, hist, run, decoded, inputs>>

\* forget, line 83: lock, remove, drop the guard, in one statement
Forget(t) ==
    /\ pc[t] = "forget"
    /\ lock = Free
    /\ cache' = cache_remove(cache, call[t].uri)
    /\ Return(t, [call[t] EXCEPT !.locked = TRUE,
                                 !.hit = cache_get(cache, call[t].uri) # None], Unit)
    /\ UNCHANGED lock

\* forget_all, line 87: lock, clear, drop the guard
ForgetAll(t) ==
    /\ pc[t] = "forget_all"
    /\ lock = Free
    /\ cache' = cache_clear(cache)
    /\ Return(t, [call[t] EXCEPT !.locked = TRUE, !.hit = DOMAIN cache # {}], Unit)
    /\ UNCHANGED lock

\* byte_size, lines 91-98: lock, sum over the values, drop the guard
ByteSize(t) ==
    /\ pc[t] = "byte_size"
    /\ lock = Free
    /\ Return(t, [call[t] EXCEPT !.locked = TRUE], Usize(byte_size(cache)))
    /\ UNCHANGED <<cache, lock>>

Next ==
    \/ \E t \in Threads, uri \in inputs.uris : CallLoad(t, uri)
    \/ \E t \in Threads : LoadFilter(t)
    \/ \E t \in Threads : LoadAcquire(t)
    \/ \E t \in Threads : LoadLookup(t)
    \/ \E t \in Threads : LoadMiss(t)
    \/ \E t \in Threads, uri \in inputs.uris : CallForget(t, uri)
    \/ \E t \in Threads : CallForgetAll(t)
    \/ \E t \in Threads : CallByteSize(t)
    \/ \E t \in Threads : Forget(t)
    \/ \E t \in Threads : ForgetAll(t)
    \/ \E t \in Threads : ByteSize(t)

\* one caller: the calls happen one after another
Spec == Init /\ [][Next]_vars

\* two callers on the same loader
SpecConc == InitConc /\ [][Next]_vars

\* one caller, with the identifiers that were ever decoded recorded; the
\* provider's answers are one for each way a load can end
StoreAnswers ==
    {BytesReady(BLOB_RED_GREEN, None), BytesReady(BLOB_CORRUPT, None),
     BytesReady(BLOB_EMPTY, None), BytesReady(BLOB_RED_GREEN, Some(MIME_HTML)),
     BytesPending(None), BytesErr(NotSupported)}

InitStore == InitOf({T1}, Uris, StoreAnswers, {"hist", "decoded"})

SpecStore == InitStore /\ [][Next]_vars

\* one caller, the provider also giving the bytes that the decoder would cut
\* short
ShortAnswers ==
    {BytesReady(BLOB_SHORT, None), BytesReady(BLOB_RED_GREEN, None),
     BytesReady(BLOB_CORRUPT, None), BytesReady(BLOB_EMPTY, None), BytesPending(None)}

InitShort == InitOf({T1}, Uris, ShortAnswers, {"hist"})

SpecShort == InitShort /\ [][Next]_vars

\* two callers under a fair scheduler, the provider answering at once, with one
\* answer for each way a load can end; no history is recorded. A caller
\* inside a call takes its next step whenever that step is possible again and
\* again: a running caller is scheduled, and a caller waiting for the lock gets
\* it, the Mutex of egui being parking_lot's, which hands the lock over fairly
\* in the end.
LiveAnswers ==
    {BytesReady(BLOB_RED_GREEN, None), BytesReady(BLOB_CORRUPT, None),
     BytesReady(BLOB_EMPTY, None), BytesReady(BLOB_RED_GREEN, Some(MIME_HTML)),
     BytesPending(None), BytesErr(NotSupported)}

InitLive == InitOf({T1, T2}, ConcUris, LiveAnswers, {})

\* the steps of caller t inside a call
Step(t) ==
    \/ LoadFilter(t) \/ LoadAcquire(t) \/ LoadLookup(t) \/ LoadMiss(t)
    \/ Forget(t) \/ ForgetAll(t) \/ ByteSize(t)

Fairness == \A t \in {T1, T2} : SF_vars(Step(t))

SpecLive == InitLive /\ [][Next]_vars /\ Fairness

\* the identifier filter alone, on every short identifier over the characters
\* that matter to it, and on some longer ones
MaxUriLen == 6
UriChars == {"/", ".", "p", "n", "g"}
A_UPPER == <<"a", ".", "P", "N", "G">>
A_PNG_GZ == <<"a", ".", "p", "n", "g", ".", "g", "z">>
A_TAR_PNG == <<"a", ".", "t", "a", "r", ".", "p", "n", "g">>
FilterUris ==
    UNION {[1..k -> UriChars] : k \in 0..MaxUriLen}
        \cup {A_PNG, A_JPG, A_UPPER, A_PNG_GZ, A_TAR_PNG}

InitFilter == \E uri \in FilterUris : InitOf({T1}, {uri}, {}, {})

NextFilter ==
    \/ \E t \in Threads, uri \in inputs.uris : CallLoad(t, uri)
    \/ \E t \in Threads : LoadFilter(t)

SpecFilter == InitFilter /\ [][NextFilter]_vars

(***************************************************************************)
(* Properties                                                              *)
(***************************************************************************)
Prev == hist[1]
Last == hist[2]

IsLoad(d, uri) == d.call.op = "load" /\ d.call.uri = uri

\* the provider was asked and gave bytes
GotBytes(d) == d.call.polls = 1 /\ d.call.ans.tag = "Ready"

\* the identifiers of the model whose extension is exactly "png"
PngUris == {A_PNG, B_PNG}

\* bytes the pipeline takes to the full decode: the MIME type is absent or
\* names png, and the header parses
Accepted(ans) ==
    /\ ans.tag = "Ready"
    /\ ans.mime \in {None, Some(MIME_PNG)}
    /\ ans.bytes.id \in {"red_green", "clear", "corrupt", "noconv"}

\* accepted bytes that decode and normalise
Valid(ans) == Accepted(ans) /\ ans.bytes.id \in {"red_green", "clear"}

\* two load calls for one identifier, one right after the other, the provider
\* giving the same bytes whenever it is asked
TwiceReady(uri) ==
    /\ IsLoad(Prev, uri) /\ IsLoad(Last, uri)
    /\ Prev.call.polls = 1 => Prev.call.ans.tag = "Ready"
    /\ Last.call.polls = 1 => Last.call.ans.tag = "Ready"
    /\ Prev.call.polls = 1 /\ Last.call.polls = 1 => Last.call.ans = Prev.call.ans

\* C1 as stated: two load calls in a row for an identifier whose bytes are ready
\* return the same result, and the provider is asked at most once in the two.
C1_AlwaysOnePoll ==
    \A uri \in Uris :
        TwiceReady(uri) =>
            /\ Last.ret = Prev.ret
            /\ Prev.call.polls + Last.call.polls <= 1

\* C1 (amended): two load calls in a row for an identifier whose bytes are ready
\* return the same result; the provider is asked at most once in the two when
\* the first call took the bytes to the full decode (MIME type absent or png,
\* header parsed), the second call then being a cache hit; bytes declined for
\* their MIME type or header are not cached, both calls ask the provider and
\* both return NotSupported.
C1_Idempotent ==
    \A uri \in Uris :
        TwiceReady(uri) =>
            /\ Last.ret = Prev.ret
            /\ IF GotBytes(Prev) /\ ~ Accepted(Prev.call.ans)
               THEN /\ Last.call.polls = 1
                    /\ Last.ret = Err(NotSupported)
               ELSE /\ Prev.call.polls + Last.call.polls <= 1
                    /\ GotBytes(Prev) => Last.call.hit /\ Last.call.polls = 0

C1_Witness ==
    /\ TwiceReady(A_PNG)
    /\ GotBytes(Prev)
    /\ Prev.call.ans = BytesReady(BLOB_RED_GREEN, None)
    /\ Last.call.hit /\ Last.call.polls = 0
    /\ Last.ret = Prev.ret
    /\ Last.ret.res = "Ok" /\ Last.ret.poll.tag = "Ready"

\* the identifiers of the model the filter is to decline
DeclinedUris == Uris \ PngUris

\* C2: load of an identifier whose extension is not "png" returns NotSupported
\* without asking the provider, without taking the lock or reading the cache,
\* and leaves the cache as it was, whatever the cache holds.
C2_RoutingPurity ==
    /\ [](\A uri \in DeclinedUris :
            IsLoad(Last, uri) =>
                /\ Last.ret = Err(NotSupported)
                /\ Last.call.polls = 0 /\ Last.call.ans = NotAsked
                /\ ~ Last.call.locked /\ ~ Last.call.hit
                /\ ~ Last.call.hdr /\ ~ Last.call.dec)
    /\ [][\A t \in Threads :
            (call'[t].op = "load" /\ call'[t].uri \in DeclinedUris /\ pc'[t] # pc[t]) =>
                /\ cache' = cache
                /\ lock' = lock /\ lock = Free
                /\ pc'[t] \in {"load", "idle"}]_vars

C2_Witness ==
    /\ IsLoad(Last, A_JPG)
    /\ Last.ret = Err(NotSupported)
    /\ A_PNG \in DOMAIN cache

\* the text of the error a blob's full decode or normalisation ends with
FailText(bytes) == to_string(IF bytes.decode # "ok" THEN bytes.decode ELSE bytes.convert)

\* the provider gave bytes whose header parses and whose decode or
\* normalisation fails
GotCorrupt(d) == GotBytes(d) /\ Accepted(d.call.ans) /\ ~ Valid(d.call.ans)

\* C3: when the header parses and the full decode or the normalisation fails,
\* load returns Loading(msg), msg the error's text, and the cache holds
\* Err(msg) for the identifier; a load that finds an Err(msg) entry returns
\* Loading(msg) again without asking the provider or running the decoder, and in
\* particular the next load of the same identifier does.
C3_NegativeCaching ==
    \A uri \in Uris :
        /\ IsLoad(Last, uri) /\ GotCorrupt(Last) =>
              /\ Last.ret = Err(Loading(FailText(Last.call.ans.bytes)))
              /\ cache_get(cache, uri) = Some(EntryErr(FailText(Last.call.ans.bytes)))
        /\ IsLoad(Prev, uri) /\ GotCorrupt(Prev) /\ IsLoad(Last, uri) =>
              /\ Last.ret = Prev.ret
              /\ Last.call.hit
              /\ Last.call.polls = 0 /\ ~ Last.call.hdr /\ ~ Last.call.dec
              /\ cache_get(cache, uri) = Some(EntryErr(FailText(Prev.call.ans.bytes)))
        /\ ( /\ IsLoad(Last, uri) /\ Last.call.hit
             /\ uri \in DOMAIN cache /\ cache[uri].tag = "Err" ) =>
              /\ Last.ret = Err(Loading(cache[uri].err))
              /\ Last.call.polls = 0 /\ ~ Last.call.hdr /\ ~ Last.call.dec

C3_Witness ==
    /\ IsLoad(Prev, A_PNG) /\ GotCorrupt(Prev)
    /\ Prev.call.ans.bytes = BLOB_CORRUPT
    /\ IsLoad(Last, A_PNG) /\ Last.call.hit
    /\ Last.ret = Err(Loading("bad image data"))

\* the result is Ready with an image
IsReady(r) == r.res = "Ok" /\ r.poll.tag = "Ready"

\* C4: a Pending answer is returned with the provider's size hint and leaves
\* the cache as it was, with no entry for the identifier; a load that misses
\* and gets valid bytes returns Ready with the decoded image and stores it,
\* whatever number of Pending results came before.
C4_PendingNotCached ==
    /\ [](\A uri \in Uris :
            /\ ( /\ IsLoad(Last, uri) /\ Last.call.polls = 1
                 /\ Last.call.ans.tag = "Pending" ) =>
                  /\ Last.ret = Ok(ImagePending(Last.call.ans.size))
                  /\ uri \notin DOMAIN cache
            /\ IsLoad(Last, uri) /\ GotBytes(Last) /\ Valid(Last.call.ans) =>
                  /\ IsReady(Last.ret)
                  /\ Last.ret.poll.image.image.size = Last.call.ans.bytes.size
                  /\ cache_get(cache, uri) = Some(EntryOk(Last.ret.poll.image)))
    /\ [][\A t \in Threads :
            (pc[t] = "miss" /\ pc'[t] = "idle" /\ call'[t].ans.tag = "Pending") =>
                cache' = cache]_vars

C4_Witness ==
    /\ IsLoad(Last, A_PNG) /\ GotBytes(Last) /\ Valid(Last.call.ans)
    /\ IsReady(Last.ret)
    /\ run.uri = A_PNG /\ run.n >= 2 /\ ~ run.open
    /\ IsLoad(Prev, A_PNG) /\ IsPending(Prev.ret)

\* the bytes the specification accounts for an entry: width * height * 4 for a
\* decoded image, the length of the message for a failure
Accounted(entry) ==
    IF entry.tag = "Ok"
    THEN entry.image.image.size[1] * entry.image.image.size[2] * 4
    ELSE Len(entry.err)

RECURSIVE AccountedSum(_, _)
AccountedSum(c, keys) ==
    IF keys = {} THEN 0
    ELSE LET k == CHOOSE x \in keys : TRUE
         IN  Accounted(c[k]) + AccountedSum(c, keys \ {k})

\* C5: forget(uri) of a cached identifier removes its entry and lowers
\* byte_size by exactly the entry's accounted size, and the next load of it
\* misses and asks the provider; forget of an identifier without an entry
\* leaves the cache and byte_size as they were.
C5_ForgetEvicts ==
    /\ [][\A t \in Threads :
            (pc[t] = "forget" /\ pc'[t] = "idle") =>
                LET uri == call[t].uri
                IN  IF uri \in DOMAIN cache
                    THEN /\ uri \notin DOMAIN cache'
                         /\ byte_size(cache') = byte_size(cache) - Accounted(cache[uri])
                         /\ call'[t].hit
                    ELSE /\ cache' = cache
                         /\ byte_size(cache') = byte_size(cache)
                         /\ ~ call'[t].hit]_vars
    /\ [](\A uri \in Uris :
            ( /\ Prev.call.op = "forget" /\ Prev.call.uri = uri /\ Prev.call.hit
              /\ IsLoad(Last, uri) ) =>
                ~ Last.call.hit /\ Last.call.polls = 1)

C5_Witness ==
    /\ Prev.call.op = "forget" /\ Prev.call.uri = A_PNG /\ Prev.call.hit
    /\ IsLoad(Last, A_PNG) /\ Last.call.polls = 1
    /\ B_PNG \in DOMAIN cache

\* C6: after forget_all the cache is empty and byte_size is 0, whatever the
\* cache held; the load of a "png" identifier that follows misses and asks the
\* provider, as does every load of a "png" identifier that finds no entry.
C6_ForgetAllEmpties ==
    /\ [][\A t \in Threads :
            (pc[t] = "lookup" /\ pc'[t] # pc[t] /\ call[t].uri \notin DOMAIN cache) =>
                pc'[t] = "miss"]_vars
    /\ [](\A uri \in PngUris :
            IsLoad(Last, uri) /\ ~ Last.call.hit => Last.call.polls = 1)
    /\ [][\A t \in Threads :
            (pc[t] = "forget_all" /\ pc'[t] = "idle") =>
                /\ DOMAIN cache' = {}
                /\ byte_size(cache') = 0]_vars
    /\ [](Last.call.op = "forget_all" => DOMAIN cache = {} /\ byte_size(cache) = 0)
    /\ [](\A uri \in PngUris :
            Prev.call.op = "forget_all" /\ IsLoad(Last, uri) =>
                ~ Last.call.hit /\ Last.call.polls = 1)

C6_Witness ==
    /\ Prev.call.op = "forget_all" /\ Prev.call.hit
    /\ IsLoad(Last, A_PNG) /\ ~ Last.call.hit /\ Last.call.polls = 1

\* C7: byte_size is the sum over the entries of width * height * 4 for a
\* decoded image and of the message's length for a failure, in every state; the
\* byte_size call returns that sum and leaves the cache as it was.
C7_Accounting ==
    /\ [](byte_size(cache) = AccountedSum(cache, DOMAIN cache))
    /\ [](Last.call.op = "byte_size" =>
            Last.ret = Usize(AccountedSum(cache, DOMAIN cache)))
    /\ [][\A t \in Threads :
            (pc[t] = "byte_size" /\ pc'[t] = "idle") => cache' = cache]_vars

C7_Witness ==
    /\ Last.call.op = "byte_size"
    /\ Last.ret = Usize(2 * 1 * 4 + Len("bad image data"))
    /\ Cardinality(DOMAIN cache) = 2

GotFailure(d) == d.call.polls = 1 /\ d.call.ans.tag = "Err"

\* C9: when the provider fails, load returns the provider's error as it is and
\* leaves the cache as it was, with no entry for the identifier, so that the
\* next load of the identifier asks the provider again.
C9_ProviderFailure ==
    /\ [](\A uri \in Uris :
            /\ IsLoad(Last, uri) /\ GotFailure(Last) =>
                  /\ Last.ret.res = "Err"
                  /\ Last.ret.err = Last.call.ans.err
                  /\ uri \notin DOMAIN cache
            /\ IsLoad(Prev, uri) /\ GotFailure(Prev) /\ IsLoad(Last, uri) =>
                  ~ Last.call.hit /\ Last.call.polls = 1)
    /\ [][\A t \in Threads :
            (pc[t] = "miss" /\ pc'[t] = "idle" /\ call'[t].ans.tag = "Err") =>
                cache' = cache]_vars

C9_Witness ==
    /\ IsLoad(Prev, A_PNG) /\ GotFailure(Prev)
    /\ Prev.ret = Err(Loading("io error"))
    /\ IsLoad(Last, A_PNG) /\ Last.call.polls = 1
    /\ IsReady(Last.ret)

\* the call asked the provider and its result was inserted
Inserted(d) == GotBytes(d) /\ Accepted(d.call.ans)

\* C10: the lock is held from a load's lookup to its return, so no caller is
\* past a missed lookup while the entry exists or while another caller is
\* inside; when a caller asked for the lock while the other was loading the
\* same uncached identifier, and the other's call inserted an entry, the
\* waiting caller's call, completing next, is a hit that returns that entry
\* without asking the provider or the decoder, and the cache holds that one
\* entry.
C10_SingleFlight ==
    /\ \A t \in Threads :
          /\ pc[t] \in {"lookup", "miss"} => lock = t
          /\ pc[t] = "miss" => call[t].uri \notin DOMAIN cache
    /\ \A uri \in Uris :
          ( /\ IsLoad(Prev, uri) /\ IsLoad(Last, uri)
            /\ Prev.call.who # Last.call.who
            /\ Last.call.raced
            /\ Inserted(Prev) ) =>
              /\ Last.call.hit
              /\ Last.call.polls = 0 /\ ~ Last.call.hdr /\ ~ Last.call.dec
              /\ Last.ret = Prev.ret
              /\ uri \in DOMAIN cache
              /\ IF IsReady(Last.ret)
                 THEN cache[uri] = EntryOk(Last.ret.poll.image)
                 ELSE cache[uri] = EntryErr(Last.ret.err.msg)

C10_Witness ==
    /\ IsLoad(Prev, A_PNG) /\ IsLoad(Last, A_PNG)
    /\ Prev.call.who = T1 /\ Last.call.who = T2
    /\ Last.call.raced /\ Inserted(Prev)
    /\ Last.call.hit /\ Last.call.polls = 0
    /\ IsReady(Last.ret) /\ Last.ret = Prev.ret
    /\ DOMAIN cache = {A_PNG}

\* the cache c with the entry for uri set to entry and every other entry kept
WithEntry(c, uri, entry, c2) ==
    /\ DOMAIN c2 = DOMAIN c \cup {uri}
    /\ c2[uri] = entry
    /\ \A k \in DOMAIN c \ {uri} : c2[k] = c[k]

\* the sequential meaning of a load that finds no entry and asks the provider
SeqMiss(c, d, c2) ==
    LET uri == d.call.uri
        ans == d.call.ans
    IN  CASE ans.tag = "Pending" -> c2 = c /\ d.ret = Ok(ImagePending(ans.size))
          [] ans.tag = "Err" -> c2 = c /\ d.ret = Err(ans.err)
          [] ans.tag = "Ready" /\ ~ Accepted(ans) -> c2 = c /\ d.ret = Err(NotSupported)
          [] Accepted(ans) /\ ~ Valid(ans) ->
                 /\ d.ret = Err(Loading(FailText(ans.bytes)))
                 /\ WithEntry(c, uri, EntryErr(FailText(ans.bytes)), c2)
          [] Valid(ans) ->
                 /\ IsReady(d.ret)
                 /\ d.ret.poll.image.image.size = ans.bytes.size
                 /\ WithEntry(c, uri, EntryOk(d.ret.poll.image), c2)

\* the sequential meaning of one whole call d, run alone on the cache c and
\* leaving the cache c2
SeqStep(c, d, c2) ==
    LET uri == d.call.uri
    IN  CASE d.call.op = "load" /\ uri \notin PngUris ->
                 c2 = c /\ d.ret = Err(NotSupported) /\ d.call.polls = 0
          [] d.call.op = "load" /\ uri \in PngUris /\ uri \in DOMAIN c ->
                 /\ c2 = c /\ d.call.polls = 0
                 /\ d.ret = IF c[uri].tag = "Ok" THEN Ok(ImageReady(c[uri].image))
                            ELSE Err(Loading(c[uri].err))
          [] d.call.op = "load" /\ uri \in PngUris /\ uri \notin DOMAIN c ->
                 d.call.polls = 1 /\ SeqMiss(c, d, c2)
          [] d.call.op = "forget" ->
                 /\ d.ret = Unit
                 /\ DOMAIN c2 = DOMAIN c \ {uri}
                 /\ \A k \in DOMAIN c2 : c2[k] = c[k]
          [] d.call.op = "forget_all" -> d.ret = Unit /\ DOMAIN c2 = {}
          [] d.call.op = "byte_size" ->
                 c2 = c /\ d.ret = Usize(AccountedSum(c, DOMAIN c))

\* the callers inside a critical section of load
InCritical == {t \in Threads : pc[t] \in {"lookup", "miss"}}

\* C11: with several callers, every call takes effect at one point, the step in
\* which it returns: that step leaves the cache and returns the result that the
\* whole call, run alone on the cache of that moment, leaves and returns, and no
\* other step changes the cache; so every interleaving gives the results of the
\* calls run one after another in the order of these points. At most one caller
\* is inside a critical section, it is the lock holder, and a lookup sees, for
\* each identifier, a whole entry or none.
C11_Linearizable ==
    /\ [](/\ Cardinality(InCritical) <= 1
          /\ \A t \in InCritical : lock = t
          /\ \A k \in DOMAIN cache : cache[k].tag \in {"Ok", "Err"})
    /\ [][LET done == {t \in Threads : pc[t] # "idle" /\ pc'[t] = "idle"}
          IN  IF done = {} THEN cache' = cache
              ELSE \A t \in done : SeqStep(cache, Done(call'[t], ret'[t]), cache')]_vars

\* C11 witness: T2 is inside the critical section of a load of a.png that missed
\* because T1's forget evicted the entry, and T1 waits with a forget_all
C11_Witness ==
    /\ pc[T2] = "miss" /\ lock = T2 /\ call[T2].uri = A_PNG
    /\ Last.call.who = T1 /\ Last.call.op = "forget" /\ Last.call.uri = A_PNG
    /\ Last.call.hit
    /\ pc[T1] = "forget_all"

\* the outcome an entry stands for: the stored image, or the stored failure text
Stored(entry) ==
    IF entry.tag = "Ok" THEN Ok(ImageReady(entry.image)) ELSE Err(Loading(entry.err))

\* C12: a load that finds an entry for its identifier returns in that step
\* exactly the stored outcome, the same Arc or the same failure text, leaves
\* the cache as it was, and has asked neither the provider nor the decoder, so
\* nothing the provider would answer can change the result; no call is past
\* the lookup while its identifier has an entry.
C12_CacheHit ==
    /\ [](\A t \in Threads : pc[t] = "miss" => call[t].uri \notin DOMAIN cache)
    /\ [][\A t \in Threads :
              pc[t] = "lookup" /\ call[t].uri \in DOMAIN cache /\ pc'[t] # "lookup" =>
                  /\ pc'[t] = "idle"
                  /\ ret'[t] = Stored(cache[call[t].uri])
                  /\ cache' = cache
                  /\ call'[t].hit
                  /\ call'[t].polls = 0 /\ call'[t].ans = NotAsked
                  /\ ~ call'[t].hdr /\ ~ call'[t].dec]_vars

\* C12 witness: a hit on a remembered failure right after a hit on an image
C12_Witness ==
    /\ IsLoad(Prev, A_PNG) /\ Prev.call.hit /\ IsReady(Prev.ret)
    /\ IsLoad(Last, B_PNG) /\ Last.call.hit /\ Last.ret = Err(Loading("bad image data"))
    /\ Last.call.polls = 0

\* a MIME type that names png: the letters p, n, g in a row somewhere in it
NamesPng(m) ==
    \E i \in 1..Len(m) : i + 2 <= Len(m) /\ m[i] = "p" /\ m[i + 1] = "n" /\ m[i + 2] = "g"

\* C13: when the provider gives bytes with a MIME type that does not name png,
\* the load returns NotSupported, neither the header parser nor the decoder has
\* run, and nothing is cached for the identifier; when it reports no MIME type
\* the check is skipped and the header parser runs. The cache is as it was
\* after either rejection.
C13_MimeCheck ==
    /\ [](\A uri \in PngUris :
             IsLoad(Last, uri) /\ GotBytes(Last) =>
                 LET mime == Last.call.ans.mime
                 IN  /\ mime # None /\ ~ NamesPng(mime[1]) =>
                            /\ Last.ret = Err(NotSupported)
                            /\ ~ Last.call.hdr /\ ~ Last.call.dec
                            /\ uri \notin DOMAIN cache
                     /\ mime = None => Last.call.hdr
                     /\ mime # None /\ NamesPng(mime[1]) => Last.call.hdr)
    /\ [][\A t \in Threads :
              /\ pc[t] = "miss" /\ pc'[t] = "idle"
              /\ call'[t].ans.tag = "Ready" /\ call'[t].ans.mime # None
              /\ ~ NamesPng(call'[t].ans.mime[1])
              => cache' = cache]_vars

\* C13 witness: good bytes reported as text/html are declined, and the same
\* bytes without a MIME type were decoded by the call before
C13_Witness ==
    /\ IsLoad(Prev, B_PNG) /\ Prev.call.ans = BytesReady(BLOB_RED_GREEN, None)
    /\ IsReady(Prev.ret)
    /\ IsLoad(Last, A_PNG) /\ Last.call.ans = BytesReady(BLOB_RED_GREEN, Some(MIME_HTML))
    /\ Last.ret = Err(NotSupported)

\* bytes that pass the MIME check and have no PNG header; the empty input is
\* the one of the model
HeaderFails(d) ==
    /\ GotBytes(d)
    /\ d.call.ans.mime \in {None, Some(MIME_PNG)}
    /\ d.call.ans.bytes.id = "empty"

\* C14: when the header of the provider's bytes does not parse, the empty input
\* included, the load returns NotSupported and not a failure, the full decode
\* has not run, the cache is as it was with no entry for the identifier, and a
\* load of the same identifier right after it asks the provider again.
C14_HeaderReject ==
    /\ [](\A uri \in PngUris :
             /\ IsLoad(Last, uri) /\ HeaderFails(Last) =>
                    /\ Last.ret = Err(NotSupported)
                    /\ Last.call.hdr /\ ~ Last.call.dec
                    /\ uri \notin DOMAIN cache
             /\ IsLoad(Prev, uri) /\ HeaderFails(Prev) /\ IsLoad(Last, uri) =>
                    Last.call.polls = 1 /\ ~ Last.call.hit)
    /\ [][\A t \in Threads :
              /\ pc[t] = "miss" /\ pc'[t] = "idle"
              /\ HeaderFails(Done(call'[t], ret'[t]))
              => cache' = cache]_vars

\* C14 witness: empty bytes are declined, and the next load of the identifier
\* asks the provider again and decodes what it then gives
C14_Witness ==
    /\ IsLoad(Prev, A_PNG) /\ Prev.call.ans = BytesReady(BLOB_EMPTY, None)
    /\ Prev.ret = Err(NotSupported)
    /\ IsLoad(Last, A_PNG) /\ Last.call.polls = 1 /\ IsReady(Last.ret)

\* C15 as stated: an identifier has an entry exactly when a decode attempt for
\* it has completed at some time before, whatever was called since; an
\* identifier whose last load returned Pending has no entry.
C15_PresentIffDecoded ==
    /\ \A uri \in Uris : uri \in DOMAIN cache <=> uri \in decoded
    /\ \A uri \in Uris : IsLoad(Last, uri) /\ IsPending(Last.ret) => uri \notin DOMAIN cache

\* the step completes a decode attempt for uri
CompletesDecode(uri) ==
    \E t \in Threads :
        pc[t] = "miss" /\ pc'[t] = "idle" /\ call'[t].uri = uri /\ call'[t].dec

\* the step is a forget of uri or a forget_all
Evicts(uri) ==
    \E t \in Threads :
        \/ pc[t] = "forget" /\ pc'[t] = "idle" /\ call[t].uri = uri
        \/ pc[t] = "forget_all" /\ pc'[t] = "idle"

\* C15 (amended): an identifier has an entry exactly when a decode attempt for
\* it has completed since the identifier was last evicted by forget or
\* forget_all: the cache starts empty, an entry appears only in a step that
\* completes a decode attempt for its identifier, every such step leaves an
\* entry, and an entry goes only in a forget of its identifier or a forget_all;
\* so every identifier with an entry was decoded before, and an identifier
\* whose last load returned Pending has no entry.
C15_PresentSinceEviction ==
    /\ [](/\ DOMAIN cache \subseteq decoded
          /\ \A uri \in Uris :
                 IsLoad(Last, uri) /\ IsPending(Last.ret) => uri \notin DOMAIN cache)
    /\ [][\A uri \in Uris :
              /\ uri \notin DOMAIN cache /\ uri \in DOMAIN cache' => CompletesDecode(uri)
              /\ CompletesDecode(uri) => uri \in DOMAIN cache'
              /\ uri \in DOMAIN cache /\ uri \notin DOMAIN cache' => Evicts(uri)
              /\ Evicts(uri) => uri \notin DOMAIN cache']_vars

\* C15 witness: a.png was decoded and then forgotten, b.png was decoded with a
\* failure and is still there
C15_Witness ==
    /\ decoded = {A_PNG, B_PNG}
    /\ DOMAIN cache = {B_PNG} /\ cache[B_PNG].tag = "Err"
    /\ Last.call.op = "forget" /\ Last.call.uri = A_PNG /\ Last.call.hit

\* the text after the final "/" of s, all of s without one
AfterLastSlash(s) ==
    LET seps == {i \in 1..Len(s) : s[i] = "/"}
        from == IF seps = {} THEN 0 ELSE CHOOSE i \in seps : \A j \in seps : j <= i
    IN  SubSeq(s, from + 1, Len(s))

\* the filter as C16 words it: the text after the final path separator has a
\* "." and the text after its final "." is "png"
LiteralSuffixIsPng(uri) ==
    LET tail == AfterLastSlash(uri)
        dots == {i \in 1..Len(tail) : tail[i] = "."}
    IN  /\ dots # {}
        /\ LET d == CHOOSE i \in dots : \A j \in dots : j <= i
           IN  SubSeq(tail, d + 1, Len(tail)) = PNG

\* s without the trailing separators and "." components that a path ignores
RECURSIVE Trim(_)
Trim(s) ==
    LET n == Len(s)
    IN  IF n = 0 THEN s
        ELSE IF s[n] = "/" THEN Trim(SubSeq(s, 1, n - 1))
        ELSE IF s[n] = "." /\ (n = 1 \/ s[n - 1] = "/") THEN Trim(SubSeq(s, 1, n - 1))
        ELSE s

\* the last path component, trailing separators and "." components set aside,
\* is some text, then ".png"
PathExtensionIsPng(uri) ==
    LET name == AfterLastSlash(Trim(uri))
        n == Len(name)
    IN  n >= 5 /\ SubSeq(name, n - 3, n) = <<".", "p", "n", "g">>

\* the caller of the filter run
Filtered(P(_)) ==
    /\ pc[T1] = "lock" => P(call[T1].uri)
    /\ pc[T1] = "idle" /\ call[T1].op = "load" =>
           /\ ~ P(call[T1].uri)
           /\ ret[T1] = Err(NotSupported) /\ call[T1].polls = 0

\* C16 as stated: load goes on to the cache exactly for the identifiers whose
\* text after the final path separator and after the final "." is "png", and
\* returns NotSupported for every other identifier.
C16_LiteralSuffix == Filtered(LiteralSuffixIsPng)

\* C16 (amended): load goes on to the cache exactly for the identifiers whose
\* last path component, found as a file path's is (trailing separators and "."
\* components ignored), is a non-empty text followed by ".png", in lower case;
\* for every other identifier, among them those without a suffix, with "PNG",
\* with another extension or with one after "png", and a last component that
\* is just ".png", it returns NotSupported without asking the provider.
C16_PathExtension == Filtered(PathExtensionIsPng)

\* C16 witness: "p.png/" is taken on, its last component being "p.png"
C16_Witness ==
    /\ pc[T1] = "lock"
    /\ call[T1].uri = <<"p", ".", "p", "n", "g", "/">>

\* the decoder ended without an error and with fewer pixels than the header's
\* width times height
ShortDecode(d) ==
    /\ GotBytes(d) /\ d.call.ans.mime \in {None, Some(MIME_PNG)}
    /\ d.call.ans.bytes.header # None
    /\ d.call.ans.bytes.decode = "ok" /\ d.call.ans.bytes.convert = "ok"
    /\ Len(d.call.ans.bytes.rgba) < 4 * d.call.ans.bytes.size[1] * d.call.ans.bytes.size[2]

C18_KeysPassFilter ==
    /\ [](/\ \A k \in DOMAIN cache : PathExtensionIsPng(k) /\ k \in inputs.uris
          /\ \A uri \in inputs.uris : ~ PathExtensionIsPng(uri) => cache_get(cache, uri) = None
          /\ \A uri \in inputs.uris : Len(cache_get(cache, uri)) <= 1)
    /\ [][\A k \in DOMAIN cache' \ DOMAIN cache :
              \E t \in Threads :
                  pc[t] = "miss" /\ call[t].op = "load" /\ call[t].uri = k]_vars

\* C18 witness: both png identifiers have entries and a load of a.jpg was
\* just declined
C18_Witness ==
    /\ DOMAIN cache = {A_PNG, B_PNG}
    /\ IsLoad(Last, A_JPG) /\ Last.ret = Err(NotSupported)
    /\ A_JPG \notin DOMAIN cache

\* the steps a caller takes inside a load or a forget
InLoadOrForget == {"load", "lock", "lookup", "miss", "forget"}

\* C19: no step of a load(uri) or of a forget(uri) adds, removes or changes the
\* entry of another identifier, and a step that only enters a call changes no
\* entry at all.
C19_Frame ==
    [][\A t \in Threads :
           /\ pc[t] \in InLoadOrForget /\ pc'[t] # pc[t] =>
                  \A k \in inputs.uris \ {call[t].uri} :
                      cache_get(cache', k) = cache_get(cache, k)
           /\ pc[t] = "idle" /\ pc'[t] # pc[t] => cache' = cache]_vars

\* C19 witness: a.png was loaded and then forgotten while b.png kept its entry
C19_Witness ==
    /\ IsLoad(Prev, A_PNG) /\ Inserted(Prev)
    /\ Last.call.op = "forget" /\ Last.call.uri = A_PNG /\ Last.call.hit
    /\ DOMAIN cache = {B_PNG} /\ cache[B_PNG].tag = "Ok"

\* the callers that wait for the lock
Waiting == {t \in Threads : pc[t] \in {"lock", "forget", "forget_all", "byte_size"}}

\* C20: the lock is held only by a caller inside the critical section of its
\* load, so every way out of load, forget, forget_all and byte_size has
\* released it; as long as a call is under way some caller inside a call can
\* take a step; and under fair scheduling every call returns.
C20_LockReleasedAndProgress ==
    /\ [](/\ lock # Free => lock \in Threads /\ pc[lock] \in {"lookup", "miss"}
          /\ (\E t \in Threads : pc[t] # "idle") =>
                 \E t \in Threads :
                     \/ pc[t] \in {"load", "lookup", "miss"}
                     \/ t \in Waiting /\ lock = Free)
    /\ \A t \in {T1, T2} : (pc[t] # "idle") ~> (pc[t] = "idle")

\* C20 witness: T1 asked for the lock while T2 held it for a load of the same
\* identifier, and both calls have returned, T1's with the image T2 stored
C20_Witness ==
    /\ pc[T1] = "idle" /\ pc[T2] = "idle" /\ lock = Free
    /\ call[T1].op = "load" /\ call[T1].raced /\ call[T1].hit
    /\ IsReady(ret[T1]) /\ ret[T1] = ret[T2]

====
